---- MODULE Spec2Model ----
(***************************************************************************)
(* AI Ethics Advisor (src/main.py): the six violation rules and the        *)
(* aggregator is_action_permissible, modelled statement by statement.      *)
(*                                                                         *)
(* An action is a Python dict from attribute names to booleans; a dict     *)
(* that lacks a key is a function whose DOMAIN lacks it, and reading the   *)
(* key raises KeyError.  `and` short-circuits as Python's does.            *)
(***************************************************************************)
EXTENDS Naturals, Sequences, FiniteSets

VARIABLES
    action,          \* action[p]: the dict caller p passed (parameter, line 115)
    pc,              \* pc[p]: "idle", the line about to run, "done" or "raised"
    violated_rules,  \* violated_rules[p]: the local list of p's call (line 123)
    checked,         \* checked[p]: the rules p's call has evaluated so far
    result,          \* result[p]: the returned pair, or NoResult (line 139)
    error            \* error[p]: the key of the KeyError raised, or NoError

vars == <<action, pc, violated_rules, checked, result, error>>

----------------------------------------------------------------------------
(* Bounds *)

\* number of callers that may be inside is_action_permissible at once
NumProcs == 2

\* at most this many of the eleven keys are absent from an input dict
MaxMissing == 2

Procs == 1..NumProcs

----------------------------------------------------------------------------
(* The attribute schema and the rule labels *)

Keys ==
    { "causes_severe_harm", "causes_minor_harm", "prevents_catastrophe",
      "violates_privacy", "has_consent", "deceives_human",
      "has_ethics_approval", "has_explanation", "prevents_minor_harm",
      "uses_historical_data", "has_bias_mitigation" }

Label1 == "Rule 1: Non-Maleficence (Severe Harm)"
Label2 == "Rule 2: Harm-Mitigation (Unjustified Minor Harm)"
Label3 == "Rule 3: Data-Stewardship (Privacy without Consent)"
Label4 == "Rule 4: Honesty (Unjustified Deception)"
Label5 == "Rule 5: Accountability (No Explanation / Traceability)"
Label6 == "Rule 6: Bias Governance (Unmitigated Historical Bias)"

Labels == <<Label1, Label2, Label3, Label4, Label5, Label6>>

----------------------------------------------------------------------------
(* Python expression evaluation: a value or a raised KeyError *)

Value(b) == [raised |-> FALSE, val |-> b, key |-> ""]

KeyError(k) == [raised |-> TRUE, val |-> FALSE, key |-> k]

\* action[k]
GetItem_typo(a, k) ==
    IF k = "has_explanation" THEN KeyError("has_explaination")
    ELSE IF k \in DOMAIN a THEN Value(a[k]) ELSE KeyError(k)

GetItem(a, k) == IF k \in DOMAIN a THEN Value(a[k]) ELSE KeyError(k)

\* x and y : y is evaluated only when x is true
And_eager(x, y) ==
    IF x.raised THEN x ELSE IF y.raised THEN y ELSE Value(x.val /\ y.val)

And(x, y) == IF x.raised \/ ~x.val THEN x ELSE y

\* not x
Not(x) == IF x.raised THEN x ELSE Value(~x.val)

----------------------------------------------------------------------------
(* The six rules *)

is_rule1_violated(a) == GetItem(a, "causes_severe_harm")

is_rule2_violated(a) ==
    And(GetItem(a, "causes_minor_harm"), Not(GetItem(a, "prevents_catastrophe")))

is_rule3_violated(a) ==
    And(GetItem(a, "violates_privacy"), Not(GetItem(a, "has_consent")))

is_rule4_violated_or(a) ==
    And(GetItem(a, "deceives_human"),
        And(Not(GetItem(a, "prevents_minor_harm")),
            Not(GetItem(a, "has_ethics_approval"))))

is_rule4_violated(a) ==
    And(GetItem(a, "deceives_human"),
        Not(And(GetItem(a, "prevents_minor_harm"),
                GetItem(a, "has_ethics_approval"))))

is_rule5_violated(a) == Not(GetItem(a, "has_explanation"))

is_rule6_violated_consent(a) ==
    And(GetItem(a, "uses_historical_data"), Not(GetItem(a, "has_consent")))

is_rule6_violated(a) ==
    And(GetItem(a, "uses_historical_data"), Not(GetItem(a, "has_bias_mitigation")))

\* the keys each rule function subscripts
RuleKeys(i) ==
    CASE i = 1 -> {"causes_severe_harm"}
      [] i = 2 -> {"causes_minor_harm", "prevents_catastrophe"}
      [] i = 3 -> {"violates_privacy", "has_consent"}
      [] i = 4 -> {"deceives_human", "prevents_minor_harm", "has_ethics_approval"}
      [] i = 5 -> {"has_explanation"}
      [] i = 6 -> {"uses_historical_data", "has_bias_mitigation"}

----------------------------------------------------------------------------
(* Inputs *)

\* every dict over a subset of the schema that lacks at most MaxMissing keys
Actions ==
    UNION { [S -> BOOLEAN] :
            S \in { T \in SUBSET Keys : Cardinality(Keys \ T) <= MaxMissing } }

WellFormedActions == [Keys -> BOOLEAN]

WellFormed(a) == DOMAIN a = Keys

scenario_A_action ==
    [k \in Keys |->
        CASE k = "causes_severe_harm"   -> FALSE
          [] k = "causes_minor_harm"    -> TRUE
          [] k = "prevents_catastrophe" -> TRUE
          [] k = "violates_privacy"     -> FALSE
          [] k = "has_consent"          -> TRUE
          [] k = "deceives_human"       -> FALSE
          [] k = "has_ethics_approval"  -> TRUE
          [] k = "has_explanation"      -> TRUE
          [] k = "prevents_minor_harm"  -> TRUE
          [] k = "uses_historical_data" -> FALSE
          [] k = "has_bias_mitigation"  -> TRUE]

scenario_B_action ==
    [k \in Keys |->
        CASE k = "causes_severe_harm"   -> TRUE
          [] k = "causes_minor_harm"    -> TRUE
          [] k = "prevents_catastrophe" -> FALSE
          [] k = "violates_privacy"     -> TRUE
          [] k = "has_consent"          -> FALSE
          [] k = "deceives_human"       -> TRUE
          [] k = "has_ethics_approval"  -> FALSE
          [] k = "has_explanation"      -> FALSE
          [] k = "prevents_minor_harm"  -> FALSE
          [] k = "uses_historical_data" -> TRUE
          [] k = "has_bias_mitigation"  -> FALSE]

scenario_C_action ==
    [k \in Keys |->
        CASE k = "causes_severe_harm"   -> FALSE
          [] k = "causes_minor_harm"    -> TRUE
          [] k = "prevents_catastrophe" -> TRUE
          [] k = "violates_privacy"     -> TRUE
          [] k = "has_consent"          -> TRUE
          [] k = "deceives_human"       -> TRUE
          [] k = "has_ethics_approval"  -> TRUE
          [] k = "has_explanation"      -> TRUE
          [] k = "prevents_minor_harm"  -> TRUE
          [] k = "uses_historical_data" -> TRUE
          [] k = "has_bias_mitigation"  -> TRUE]

\* the dicts main() passes
Scenarios == {scenario_A_action, scenario_B_action, scenario_C_action}

\* the dicts concurrent callers pass: the scenarios, two that differ from
\* one of them in a single key, and one that lacks a key that is read
CallerInputs ==
    Scenarios \cup
    { [scenario_B_action EXCEPT !["has_explanation"] = TRUE],
      [scenario_A_action EXCEPT !["causes_severe_harm"] = TRUE],
      [k \in Keys \ {"has_consent"} |-> scenario_B_action[k]] }

----------------------------------------------------------------------------
(* is_action_permissible, one statement per step.  pc[p] is the line the   *)
(* call of caller p is about to execute.                                   *)

NoAction == [k \in {} |-> FALSE]

NoResult == <<>>

NoError == ""

\* violated_rules: List[str] = []
NewList_stale(old) == old

NewList(old) == <<>>

\* violated_rules.append(label), on the list of caller p
AppendLabel_front(vr, p, label) == [vr EXCEPT ![p] = <<label>> \o @]

AppendLabel_shared(vr, p, label) == [q \in DOMAIN vr |-> Append(vr[q], label)]

AppendLabel(vr, p, label) == [vr EXCEPT ![p] = Append(@, label)]

\* the statement after an `if` statement, whether or not its body ran
AfterIf_elif(next, fired) == IF fired THEN "L138" ELSE next

AfterIf(next, fired) == next

\* is_permissible = (len(violated_rules) == 0)
IsPermissible_nonempty(vr) == Len(vr) # 0

IsPermissible(vr) == Len(vr) = 0

\* a call by caller p with dict a; the frame's local is unbound until line
\* 123, the model leaves the previous frame's list there until then
Call(p, a) ==
    /\ pc[p] \in {"idle", "done", "raised"}
    /\ action' = [action EXCEPT ![p] = a]
    /\ pc' = [pc EXCEPT ![p] = "L123"]
    /\ checked' = [checked EXCEPT ![p] = <<>>]
    /\ result' = [result EXCEPT ![p] = NoResult]
    /\ error' = [error EXCEPT ![p] = NoError]
    /\ UNCHANGED violated_rules

Line123(p) ==
    /\ pc[p] = "L123"
    /\ violated_rules' = [violated_rules EXCEPT ![p] = NewList(@)]
    /\ pc' = [pc EXCEPT ![p] = "L125"]
    /\ UNCHANGED <<action, checked, result, error>>

\* if is_rule<i>_violated(action): violated_rules.append(label)
IfRule(p, here, i, r, next) ==
    /\ pc[p] = here
    /\ checked' = [checked EXCEPT ![p] = Append(@, i)]
    /\ IF r.raised
         THEN /\ pc' = [pc EXCEPT ![p] = "raised"]
              /\ error' = [error EXCEPT ![p] = r.key]
              /\ UNCHANGED violated_rules
         ELSE /\ pc' = [pc EXCEPT ![p] = AfterIf(next, r.val)]
              /\ violated_rules' =
                    IF r.val THEN AppendLabel(violated_rules, p, Labels[i])
                             ELSE violated_rules
              /\ UNCHANGED error
    /\ UNCHANGED <<action, result>>

Line125(p) == IfRule(p, "L125", 1, is_rule1_violated(action[p]), "L127")

Line127(p) == IfRule(p, "L127", 2, is_rule2_violated(action[p]), "L129")

Line129(p) == IfRule(p, "L129", 3, is_rule3_violated(action[p]), "L131")

Line131(p) == IfRule(p, "L131", 4, is_rule4_violated(action[p]), "L133")

Line133(p) == IfRule(p, "L133", 5, is_rule5_violated(action[p]), "L135")

Line135(p) == IfRule(p, "L135", 6, is_rule6_violated(action[p]), "L138")

\* is_permissible = (len(violated_rules) == 0); return is_permissible, violated_rules
Line138(p) ==
    /\ pc[p] = "L138"
    /\ result' = [result EXCEPT
                    ![p] = <<IsPermissible(violated_rules[p]), violated_rules[p]>>]
    /\ pc' = [pc EXCEPT ![p] = "done"]
    /\ UNCHANGED <<action, violated_rules, checked, error>>

Step(p) ==
    \/ Line123(p)
    \/ Line125(p)
    \/ Line127(p)
    \/ Line129(p)
    \/ Line131(p)
    \/ Line133(p)
    \/ Line135(p)
    \/ Line138(p)

----------------------------------------------------------------------------
(* Spec: one call of is_action_permissible on any input dict *)

Idle ==
    /\ action = [p \in Procs |-> NoAction]
    /\ pc = [p \in Procs |-> "idle"]
    /\ violated_rules = [p \in Procs |-> <<>>]
    /\ checked = [p \in Procs |-> <<>>]
    /\ result = [p \in Procs |-> NoResult]
    /\ error = [p \in Procs |-> NoError]

Init ==
    /\ action \in {[p \in Procs |-> IF p = 1 THEN a ELSE NoAction] : a \in Actions}
    /\ pc = [p \in Procs |-> IF p = 1 THEN "L123" ELSE "idle"]
    /\ violated_rules = [p \in Procs |-> <<>>]
    /\ checked = [p \in Procs |-> <<>>]
    /\ result = [p \in Procs |-> NoResult]
    /\ error = [p \in Procs |-> NoError]

Next == Step(1)

Spec == Init /\ [][Next]_vars

----------------------------------------------------------------------------
(* FairSpec: the same call; the interpreter runs the body to its end *)

FairSpec == Init /\ [][Next]_vars /\ WF_vars(Next)

----------------------------------------------------------------------------
(* ConcSpec: NumProcs callers, each calling is_action_permissible again    *)
(* and again, their statements interleaved                                 *)

ConcNext == \E p \in Procs : Step(p) \/ \E a \in CallerInputs : Call(p, a)

ConcSpec == Idle /\ [][ConcNext]_vars

----------------------------------------------------------------------------
(* FlipSpec: caller 1 evaluates a well-formed dict; then caller 2          *)
(* evaluates a copy of it in which the keys of one rule were reassigned    *)

Variants(a) ==
    UNION { { [k \in Keys |-> IF k \in RuleKeys(i) THEN v[k] ELSE a[k]] :
              v \in [RuleKeys(i) -> BOOLEAN] } : i \in 1..6 }

FlipInit ==
    /\ action \in {[p \in Procs |-> IF p = 1 THEN a ELSE NoAction] :
                     a \in WellFormedActions}
    /\ pc = [p \in Procs |-> IF p = 1 THEN "L123" ELSE "idle"]
    /\ violated_rules = [p \in Procs |-> <<>>]
    /\ checked = [p \in Procs |-> <<>>]
    /\ result = [p \in Procs |-> NoResult]
    /\ error = [p \in Procs |-> NoError]

FlipCall ==
    /\ pc[1] = "done"
    /\ pc[2] = "idle"
    /\ \E b \in Variants(action[1]) : Call(2, b)

FlipNext == Step(1) \/ Step(2) \/ FlipCall

FlipSpec == FlipInit /\ [][FlipNext]_vars

----------------------------------------------------------------------------
(* The violation predicates as the module docstring states them            *)

V(i, a) ==
    CASE i = 1 -> a["causes_severe_harm"]
      [] i = 2 -> a["causes_minor_harm"] /\ ~a["prevents_catastrophe"]
      [] i = 3 -> a["violates_privacy"] /\ ~a["has_consent"]
      [] i = 4 -> a["deceives_human"]
                    /\ ~(a["prevents_minor_harm"] /\ a["has_ethics_approval"])
      [] i = 5 -> ~a["has_explanation"]
      [] i = 6 -> a["uses_historical_data"] /\ ~a["has_bias_mitigation"]

\* P := ~(V1 \/ V2 \/ V3 \/ V4 \/ V5 \/ V6)
P(a) == ~(\E i \in 1..6 : V(i, a))

----------------------------------------------------------------------------
(* Helpers of the properties *)

Returned(p) == pc[p] = "done"

Raised(p) == pc[p] = "raised"

Has(list, label) == \E n \in 1..Len(list) : list[n] = label

LabelIndex(label) == CHOOSE i \in 1..6 : Labels[i] = label

IsLabel(label) == \E i \in 1..6 : Labels[i] = label

\* the labels of the rules among the indices s whose predicate holds of a
FiredLabels(a, s) ==
    LET f == SelectSeq(s, LAMBDA i : V(i, a))
    IN  [n \in 1..Len(f) |-> Labels[f[n]]]

AllRules == <<1, 2, 3, 4, 5, 6>>

Missing(a) == Keys \ DOMAIN a

----------------------------------------------------------------------------
(* Properties of one call (Spec) *)

\* C1: for a dict with all eleven keys, the returned list holds the label
\* of rule i exactly when rule i's predicate holds of the dict, for each
\* i in 1..6, and holds nothing that is not one of the six labels; so with
\* deceives_human true, rule 4's label is absent exactly when both
\* prevents_minor_harm and has_ethics_approval are true.
C1_LabelsMatchPredicates ==
    \A p \in Procs :
        (Returned(p) /\ WellFormed(action[p])) =>
            LET a == action[p]
                list == result[p][2]
            IN  /\ \A i \in 1..6 : Has(list, Labels[i]) <=> V(i, a)
                /\ \A n \in 1..Len(list) : IsLabel(list[n])
                /\ a["deceives_human"] =>
                      (~Has(list, Label4) <=>
                          (a["prevents_minor_harm"] /\ a["has_ethics_approval"]))

\* a justified deception returned without rule 4's label, next to a rule
\* that did fire
C1_Witness ==
    /\ Returned(1)
    /\ WellFormed(action[1])
    /\ action[1]["deceives_human"]
    /\ action[1]["prevents_minor_harm"]
    /\ action[1]["has_ethics_approval"]
    /\ ~Has(result[1][2], Label4)
    /\ Has(result[1][2], Label6)

\* C2: for a dict with all eleven keys, the returned is_permissible is true
\* exactly when the returned list is empty, which is exactly when none of
\* the six predicates holds.
C2_PermissibleIffEmpty ==
    \A p \in Procs :
        (Returned(p) /\ WellFormed(action[p])) =>
            /\ result[p][1] <=> (result[p][2] = <<>>)
            /\ result[p][1] <=> P(action[p])

C2_Witness ==
    /\ Returned(1)
    /\ action[1] = scenario_C_action
    /\ result[1] = <<TRUE, <<>>>>

\* C3: the returned labels are in strictly ascending rule index, so none
\* repeats and there are at most six; when all six rules fire the list is
\* the six labels in the order 1 to 6.
C3_AscendingOrder ==
    \A p \in Procs :
        (Returned(p) /\ WellFormed(action[p])) =>
            LET list == result[p][2]
            IN  /\ \A m, n \in 1..Len(list) :
                      m < n => LabelIndex(list[m]) < LabelIndex(list[n])
                /\ \A m, n \in 1..Len(list) : m # n => list[m] # list[n]
                /\ Len(list) <= 6
                /\ (\A i \in 1..6 : V(i, action[p])) => list = Labels

C3_Witness ==
    /\ Returned(1)
    /\ action[1] = scenario_B_action
    /\ result[1] = <<FALSE, Labels>>

\* C4: with exactly one of the eleven keys removed, the call never returns
\* a result; it fails, and the error names the removed key.
C4_OneMissingKeyRejected ==
    \A p \in Procs :
        (Cardinality(Missing(action[p])) = 1 /\ (Returned(p) \/ Raised(p))) =>
            /\ Raised(p)
            /\ error[p] \in Missing(action[p])

\* C9: in a call on a dict with all eleven keys the rules are checked in
\* the order 1 to 6, none is skipped whichever fired before, the list holds
\* at every moment exactly the labels of the rules checked so far that
\* fired, and the result is returned only after all six were checked.
C9_AllRulesCheckedInOrder ==
    \A p \in Procs :
        (WellFormed(action[p]) /\ pc[p] \notin {"idle", "L123"}) =>
            /\ \A n \in 1..Len(checked[p]) : checked[p][n] = n
            /\ violated_rules[p] = FiredLabels(action[p], checked[p])
            /\ pc[p] \in {"L138", "done"} => checked[p] = AllRules
            /\ Returned(p) => result[p][2] = violated_rules[p]

\* rule 1 fired and the call still went on to check rules 2 to 6
C9_Witness ==
    /\ Returned(1)
    /\ WellFormed(action[1])
    /\ V(1, action[1])
    /\ V(6, action[1])
    /\ ~V(3, action[1])
    /\ checked[1] = AllRules

----------------------------------------------------------------------------
(* Missing keys (Spec) *)

\* the order in which a call subscripts the dict
ReadOrder ==
    << "causes_severe_harm", "causes_minor_harm", "prevents_catastrophe",
       "violates_privacy", "has_consent", "deceives_human",
       "prevents_minor_harm", "has_ethics_approval", "has_explanation",
       "uses_historical_data", "has_bias_mitigation" >>

Holds(a, k) == k \in DOMAIN a /\ a[k]

\* whether the second or third operand k of a conjunction is reached
OperandRead(a, k) ==
    CASE k = "prevents_catastrophe" -> Holds(a, "causes_minor_harm")
      [] k = "has_consent"          -> Holds(a, "violates_privacy")
      [] k = "prevents_minor_harm"  -> Holds(a, "deceives_human")
      [] k = "has_ethics_approval"  ->
            Holds(a, "deceives_human") /\ Holds(a, "prevents_minor_harm")
      [] k = "has_bias_mitigation"  -> Holds(a, "uses_historical_data")
      [] OTHER -> TRUE

\* the positions in ReadOrder of the missing keys that are read
MissingRead(a) ==
    {n \in 1..Len(ReadOrder) :
        ReadOrder[n] \notin DOMAIN a /\ OperandRead(a, ReadOrder[n])}

FirstMissingRead(a) ==
    ReadOrder[CHOOSE n \in MissingRead(a) : \A m \in MissingRead(a) : n <= m]

\* C10: a call on a dict with missing keys fails exactly when a missing key
\* is read (rules in the order 1 to 6, the later operand of a conjunction
\* only when the earlier ones are true); the error names the first missing
\* key read, no list is returned then, and when no missing key is read the
\* call returns the result the rules give.
C10_FailsOnFirstMissingKeyRead ==
    \A p \in Procs :
        (Returned(p) \/ Raised(p)) =>
            LET a == action[p]
            IN  /\ Raised(p) <=> MissingRead(a) # {}
                /\ Raised(p) =>
                      /\ error[p] = FirstMissingRead(a)
                      /\ result[p] = NoResult
                /\ Returned(p) =>
                      /\ error[p] = NoError
                      /\ result[p] = <<P(a), FiredLabels(a, AllRules)>>

\* has_consent is missing and never read, has_bias_mitigation is missing
\* and read: the error names the latter, and the label of rule 1, already
\* appended, is not returned
C10_Witness ==
    /\ Raised(1)
    /\ Missing(action[1]) = {"has_consent", "has_bias_mitigation"}
    /\ error[1] = "has_bias_mitigation"
    /\ violated_rules[1] = <<Label1>>
    /\ result[1] = NoResult

----------------------------------------------------------------------------
(* Termination (FairSpec) *)

\* C5: a call on a dict with all eleven boolean keys terminates and
\* returns a (boolean, list) pair; it never ends in an error.
C5_WellFormedCallReturns ==
    \A p \in Procs :
        (pc[p] = "L123" /\ WellFormed(action[p])) ~>
            (/\ Returned(p)
             /\ Len(result[p]) = 2
             /\ result[p][1] \in BOOLEAN
             /\ error[p] = NoError)

C5_Witness ==
    /\ Returned(1)
    /\ WellFormed(action[1])
    /\ result[1] = <<FALSE, <<Label2, Label5>>>>
    /\ error[1] = NoError

----------------------------------------------------------------------------
(* Repeated and concurrent calls (ConcSpec) *)

\* C6: two calls that returned on equal dicts returned equal results, the
\* same boolean and the same labels in the same order, whatever calls
\* either caller made before.
C6_EqualInputsEqualResults ==
    \A p, q \in Procs :
        (Returned(p) /\ Returned(q) /\ action[p] = action[q]) =>
            result[p] = result[q]

\* both callers returned all six labels for scenario B
C6_Witness ==
    /\ Returned(1)
    /\ Returned(2)
    /\ action[1] = scenario_B_action
    /\ action[2] = scenario_B_action
    /\ result[1] = <<FALSE, Labels>>
    /\ result[2] = result[1]

\* C8: with the statements of several calls interleaved, a call's list
\* never holds a label another call contributed, and each call returns the
\* result it returns when run alone.
C8_CallsAreIndependent ==
    \A p \in Procs :
        /\ (WellFormed(action[p]) /\ pc[p] \notin {"idle", "L123"}) =>
              violated_rules[p] = FiredLabels(action[p], checked[p])
        /\ Returned(p) =>
              result[p] = <<P(action[p]), FiredLabels(action[p], AllRules)>>

\* caller 1 is half way through scenario B while caller 2 is half way
\* through scenario A
C8_Witness ==
    /\ pc[1] = "L131"
    /\ action[1] = scenario_B_action
    /\ violated_rules[1] = <<Label1, Label2, Label3>>
    /\ pc[2] = "L129"
    /\ action[2] = scenario_A_action
    /\ violated_rules[2] = <<>>

----------------------------------------------------------------------------
(* One rule's keys reassigned (FlipSpec) *)

\* C7: when a second dict differs from a well-formed first one only in the
\* keys rule i reads and rule i's predicate holds of the second, the second
\* result holds rule i's label, and every other rule's label is in the
\* second result exactly when it is in the first.
C7_RuleFlipIsLocal ==
    (Returned(1) /\ Returned(2)) =>
        \A i \in 1..6 :
            (/\ \A k \in Keys \ RuleKeys(i) : action[2][k] = action[1][k]
             /\ V(i, action[2])) =>
                /\ Has(result[2][2], Labels[i])
                /\ \A j \in (1..6) \ {i} :
                      Has(result[2][2], Labels[j]) <=> Has(result[1][2], Labels[j])

\* scenario B with has_explanation set, then has_explanation cleared again:
\* rule 5's label comes back, the other five stay
C7_Witness ==
    /\ Returned(1)
    /\ Returned(2)
    /\ action[1] = [scenario_B_action EXCEPT !["has_explanation"] = TRUE]
    /\ action[2] = scenario_B_action
    /\ result[1] = <<FALSE, <<Label1, Label2, Label3, Label4, Label6>>>>
    /\ result[2] = <<FALSE, Labels>>

====
